---- MODULE Spec2Model ----
(***************************************************************************)
(* Model of app_mapa_geo.py: a Streamlit script that loads one CSV file    *)
(* (cached), lets the user pick an element and a set of sample types,      *)
(* filters the table and draws one coloured marker per retained row.       *)
(*                                                                         *)
(* One run of the script (a "render pass") is one action.  The state is    *)
(* the input file, the st.cache_data entry of load_data, the widget state  *)
(* of the session and what the last pass computed and displayed.           *)
(***************************************************************************)
EXTENDS Integers, Sequences, FiniteSets, TLC

\* Largest number of data rows of the input file.
MaxRows == 3

(***************************************************************************)
(* Cells.  A CSV cell is a text; a DataFrame cell is missing (NaN), a      *)
(* text or a number.  All three are records of one shape.                  *)
(***************************************************************************)
NaN == [kind |-> "nan", s |-> "", v |-> 0]
Str(s) == [kind |-> "str", s |-> s, v |-> 0]
Num(n) == [kind |-> "num", s |-> "", v |-> n]

\* The texts that parse as numbers, with their values.
NumeralValue ==
    [s \in {"-74", "-1", "0", "2", "4", "5"} |->
        CASE s = "-74" -> 0 - 74
          [] s = "-1"  -> 0 - 1
          [] s = "0"   -> 0
          [] s = "2"   -> 2
          [] s = "4"   -> 4
          [] s = "5"   -> 5]

IsNumeral(s) == s \in DOMAIN NumeralValue

\* The catalogue of element columns.
element_columns ==
    << "Li_ppm2", "Cu_ppm2", "Co_ppm2", "Ni_ppm2", "La_ppm2",
       "Ce_ppm2", "Pr_ppm2", "Nd_ppm2", "Sm_ppm2", "Eu_ppm2",
       "Gd_ppm2", "Tb_ppm2", "Dy_ppm2", "Ho_ppm2", "Er_ppm2",
       "Tm_ppm2", "Yb_ppm2", "Lu_ppm2", "Sc_ppm2", "Y_ppm2" >>

\* e.split('_')[0]: the text before the first underscore.
split_first(e) ==
    CASE e = "Li_ppm2" -> "Li"
      [] e = "Cu_ppm2" -> "Cu"
      [] e = "Co_ppm2" -> "Co"
      [] e = "Ni_ppm2" -> "Ni"
      [] e = "La_ppm2" -> "La"
      [] e = "Ce_ppm2" -> "Ce"
      [] e = "Pr_ppm2" -> "Pr"
      [] e = "Nd_ppm2" -> "Nd"
      [] e = "Sm_ppm2" -> "Sm"
      [] e = "Eu_ppm2" -> "Eu"
      [] e = "Gd_ppm2" -> "Gd"
      [] e = "Tb_ppm2" -> "Tb"
      [] e = "Dy_ppm2" -> "Dy"
      [] e = "Ho_ppm2" -> "Ho"
      [] e = "Er_ppm2" -> "Er"
      [] e = "Tm_ppm2" -> "Tm"
      [] e = "Yb_ppm2" -> "Yb"
      [] e = "Lu_ppm2" -> "Lu"
      [] e = "Sc_ppm2" -> "Sc"
      [] e = "Y_ppm2" -> "Y"

\* [e.split('_')[0] for e in element_columns]
element_names == [i \in 1..Len(element_columns) |-> split_first(element_columns[i])]

\* The columns the script reads (Municipio is only printed in the popup).
Columns ==
    {"latitude", "longitude", "tipo_muestra"}
        \cup { element_columns[i] : i \in 1..Len(element_columns) }

\* f"{selected_element_name}_ppm2"
selected_element_col(name) ==
    CASE name = "Li" -> "Li_ppm2"
      [] name = "Cu" -> "Cu_ppm2"
      [] name = "Co" -> "Co_ppm2"
      [] name = "Ni" -> "Ni_ppm2"
      [] name = "La" -> "La_ppm2"
      [] name = "Ce" -> "Ce_ppm2"
      [] name = "Pr" -> "Pr_ppm2"
      [] name = "Nd" -> "Nd_ppm2"
      [] name = "Sm" -> "Sm_ppm2"
      [] name = "Eu" -> "Eu_ppm2"
      [] name = "Gd" -> "Gd_ppm2"
      [] name = "Tb" -> "Tb_ppm2"
      [] name = "Dy" -> "Dy_ppm2"
      [] name = "Ho" -> "Ho_ppm2"
      [] name = "Er" -> "Er_ppm2"
      [] name = "Tm" -> "Tm_ppm2"
      [] name = "Yb" -> "Yb_ppm2"
      [] name = "Lu" -> "Lu_ppm2"
      [] name = "Sc" -> "Sc_ppm2"
      [] name = "Y" -> "Y_ppm2"

(***************************************************************************)
(* Input files: at most MaxRows rows of texts.  Rows with a defect in one  *)
(* of the cleaning columns, and rows with sound coordinates that vary in   *)
(* the sample type and in the element cells.  The element cells of a row   *)
(* follow a pattern p: column k of the catalogue holds the text at place   *)
(* p + k - 1 (cyclically) of CellTexts, so that every element column meets *)
(* positive, zero, negative, unparseable and empty cells.                  *)
(***************************************************************************)
CellTexts == <<"5", "bad", "0", "-1", "", "2">>

ElementCell(pattern, k) == CellTexts[((pattern + k - 1) % Len(CellTexts)) + 1]

RawRow(lat, lon, tipo, pattern) ==
    [col \in Columns |->
        CASE col = "latitude" -> lat
          [] col = "longitude" -> lon
          [] col = "tipo_muestra" -> tipo
          [] OTHER ->
               ElementCell(pattern,
                           CHOOSE k \in 1..Len(element_columns) : element_columns[k] = col)]

\* A missing latitude, a latitude and a longitude that do not parse, a
\* missing sample type.
DefectRows ==
    { RawRow("",    "-74", "core", 0),
      RawRow("bad", "-74", "core", 0),
      RawRow("4",   "bad", "core", 0),
      RawRow("4",   "-74", "",     0) }

\* The sample type and the pattern of the rows with sound coordinates.
SoundKinds == { <<"core", 0>>, <<"core", 1>>, <<"soil", 3>> }

SoundRows == { RawRow("4", "-74", k[1], k[2]) : k \in SoundKinds }

RawRows == DefectRows \cup SoundRows

Files == UNION { [1..n -> RawRows] : n \in 0..MaxRows }

(***************************************************************************)
(* pandas                                                                  *)
(***************************************************************************)
\* read_csv infers a column's type: numbers when every non-empty cell
\* parses, texts otherwise; an empty cell is NaN either way.
ColumnIsNumeric(file, col) ==
    \A i \in 1..Len(file) : file[i][col] = "" \/ IsNumeral(file[i][col])

ReadCell(text, numeric) ==
    IF text = "" THEN NaN
    ELSE IF numeric THEN Num(NumeralValue[text])
    ELSE Str(text)

\* pd.read_csv(file_path): one row per line, indexed 0, 1, 2, ...
read_csv(file) ==
    LET numeric == [col \in Columns |-> ColumnIsNumeric(file, col)]
    IN  [i \in 1..Len(file) |->
            [idx |-> i - 1]
                @@ [col \in Columns |-> ReadCell(file[i][col], numeric[col])]]

\* pd.to_numeric(cell, errors='coerce')
to_numeric(cell) ==
    CASE cell.kind = "num" -> cell
      [] cell.kind = "nan" -> NaN
      [] cell.kind = "str" ->
            IF IsNumeral(cell.s) THEN Num(NumeralValue[cell.s]) ELSE NaN

\* df[col] = pd.to_numeric(df[col], errors='coerce')
CoerceColumn(rows, col) ==
    [i \in 1..Len(rows) |-> [rows[i] EXCEPT ![col] = to_numeric(rows[i][col])]]

\* df.dropna(subset=..., inplace=True)
dropna(rows, subset) ==
    SelectSeq(rows, LAMBDA r : \A col \in subset : r[col].kind # "nan")

(***************************************************************************)
(* Frames are objects.  A heap is the sequence of the tables of the frames *)
(* created so far, a frame's identity is its place in the heap, and a name *)
(* of the script holds an identity.  A statement that builds a frame       *)
(* appends to the heap; a statement that works in place changes the table  *)
(* of the frame it is applied to, for every name that holds that frame.    *)
(***************************************************************************)
\* frame[col] = pd.to_numeric(frame[col], errors='coerce'): in place
setitem_to_numeric(heap, id, col) ==
    [heap EXCEPT ![id] = CoerceColumn(@, col)]

\* frame.dropna(subset=subset, inplace=True): in place
dropna_inplace(heap, id, subset) ==
    [heap EXCEPT ![id] = dropna(@, subset)]

\* frame.copy(): a new frame with the same rows, last in the heap
copy_frame(heap, id) == Append(heap, heap[id])

(***************************************************************************)
(* load_data                                                               *)
(***************************************************************************)
FileNotFoundMsg == [by |-> "load_data", level |-> "error", line |-> 28]
SelectTypeMsg   == [by |-> "script", level |-> "warning", line |-> 72]
NoValidDataMsg  == [by |-> "script", level |-> "warning", line |-> 83]

\* dropna that does not look at the latitude.
CleaningSubsetNoLatitude == {"longitude", "tipo_muestra"}

\* dropna on the coordinates only.
CleaningSubsetCoordinates == {"latitude", "longitude"}

CleaningSubset == {"latitude", "longitude", "tipo_muestra"}

\* The try block: read_csv builds the frame, the three statements after it
\* work on it in place, and it is returned: the clean table.
CleanTable(file) ==
    dropna(CoerceColumn(CoerceColumn(read_csv(file), "latitude"), "longitude"),
           CleaningSubset)

\* load_data that returns an empty table after st.error.
load_data_empty(exists, file) ==
    IF exists
    THEN [none |-> FALSE, table |-> CleanTable(file), msgs |-> {}]
    ELSE [none |-> FALSE, table |-> <<>>, msgs |-> {FileNotFoundMsg}]

\* load_data(file_path): the table, or None after st.error.
load_data(exists, file) ==
    IF exists
    THEN [none |-> FALSE, table |-> CleanTable(file), msgs |-> {}]
    ELSE [none |-> TRUE, table |-> <<>>, msgs |-> {FileNotFoundMsg}]

\* @st.cache_data: the entry holds the return value and the elements the
\* function displayed.  A stored result is replayed, otherwise the function
\* runs.
NoEntry == [present |-> FALSE, value |-> [none |-> TRUE, table |-> <<>>, msgs |-> {}]]

cached_load_data(entry, exists, file) ==
    IF entry.present THEN entry.value ELSE load_data(exists, file)

\* What the call df = load_data(data_file) hands to the script, the table
\* of the entry being frame entry_id: a copy of it, as a frame of its own.
cache_data_return(heap, entry_id) ==
    [heap |-> copy_frame(heap, entry_id), id |-> Len(heap) + 1]

(***************************************************************************)
(* The filter stage                                                        *)
(***************************************************************************)
\* sorted(df['tipo_muestra'].unique()); only membership is used later.
sample_types(table) == { table[i].tipo_muestra.s : i \in 1..Len(table) }

\* isin that ignores the selection.
isin_any(cell, types) == cell.kind = "str"

\* .isin(selected_sample_types), for one cell
isin(cell, types) == cell.kind = "str" /\ cell.s \in types

\* cell > 0 in place of cell >= 0.
GtZero(cell) == cell.kind = "num" /\ cell.v > 0

\* cell >= 0, for one cell (a comparison with NaN is False)
GeZero(cell) == cell.kind = "num" /\ cell.v >= 0

\* The rows where the mask holds, last first.
TypeRowsReversed(table, types) ==
    LET kept == SelectSeq(table, LAMBDA r : isin(r.tipo_muestra, types))
    IN  [i \in 1..Len(kept) |-> kept[Len(kept) + 1 - i]]

\* df[df['tipo_muestra'].isin(selected_sample_types)].copy(): boolean
\* indexing keeps the rows where the mask holds, in the order of the table.
TypeRows(table, types) ==
    SelectSeq(table, LAMBDA r : isin(r.tipo_muestra, types))

\* frame[frame['tipo_muestra'].isin(types)]: a new frame, last in the heap
getitem_isin(heap, id, types) == Append(heap, TypeRows(heap[id], types))

\* frame[frame[col] >= 0]: a new frame, last in the heap
getitem_ge_zero(heap, id, col) ==
    Append(heap, SelectSeq(heap[id], LAMBDA r : GeZero(r[col])))

\* The rows of df filtered in df itself, and df_filtered another name of it.
bind_df_filtered_inplace(heap, df_id, types) ==
    [heap |-> [heap EXCEPT ![df_id] = TypeRows(heap[df_id], types)], id |-> df_id]

\* df_filtered = df[df['tipo_muestra'].isin(selected_sample_types)].copy():
\* the heap after the statement and the frame df_filtered holds, the copy.
bind_df_filtered(heap, df_id, types) ==
    LET indexed == getitem_isin(heap, df_id, types)
        copied  == copy_frame(indexed, Len(indexed))
    IN  [heap |-> copied, id |-> Len(copied)]

\* The four statements of the filter stage, run on a heap in which df_id is
\* the frame of df: the heap they leave and the frames df and df_filtered
\* hold after them.
filter_stage(heap, df_id, col, types) ==
    LET l75 == bind_df_filtered(heap, df_id, types)
        h78 == setitem_to_numeric(l75.heap, l75.id, col)
        h79 == dropna_inplace(h78, l75.id, {col})
        h80 == getitem_ge_zero(h79, l75.id, col)
    IN  [heap |-> h80, df |-> df_id, df_filtered |-> Len(h80)]

\* A test of the selection that never finds it empty.
NoneSelectedNever(types) == FALSE

\* if not selected_sample_types:
NoneSelected(types) == types = {}

\* df_filtered.empty
IsEmpty(rows) == Len(rows) = 0

(***************************************************************************)
(* The colour scale                                                        *)
(***************************************************************************)
RECURSIVE SeqMin(_), SeqMax(_)
SeqMin(vals) ==
    IF Len(vals) = 1 THEN vals[1]
    ELSE LET m == SeqMin(Tail(vals)) IN IF vals[1] < m THEN vals[1] ELSE m
SeqMax(vals) ==
    IF Len(vals) = 1 THEN vals[1]
    ELSE LET m == SeqMax(Tail(vals)) IN IF vals[1] > m THEN vals[1] ELSE m

ColumnValues(rows, col) == [i \in 1..Len(rows) |-> rows[i][col].v]

\* A scale that starts at 0 instead of the smallest value.
min_val_zero(rows, col) == SeqMin(<<0>> \o [i \in 1..Len(rows) |-> rows[i][col].v])

\* df_filtered[selected_element_col].min() and .max()
min_val_of(rows, col) == SeqMin(ColumnValues(rows, col))
max_val_of(rows, col) == SeqMax(ColumnValues(rows, col))

\* max_val >= min_val in place of max_val > min_val.
HasScaleGe(lo, hi) == hi >= lo

\* if max_val > min_val: the scale is built and added to the map as legend
HasScale(lo, hi) == hi > lo

\* The nine stops of the YlOrRd_09 scheme, as red, green, blue bytes.
YlOrRd_09 ==
    << <<255, 255, 204>>, <<255, 237, 160>>, <<254, 217, 118>>,
       <<254, 178, 76>>,  <<253, 141, 60>>,  <<252, 78, 42>>,
       <<227, 26, 28>>,   <<189, 0, 38>>,    <<128, 0, 38>> >>

Segments == Len(YlOrRd_09) - 1

\* A channel of value num/den (in 0..255) as the byte of the hex string:
\* int(u * 255.9999) with u = num / (den * 255).
ChannelByte(num, den) == (num * 853333) \div (den * 850000)

\* linear.YlOrRd_09.scale(lo, hi)(x): the stops are spread evenly over
\* [lo, hi]; x at or below lo gets the first stop, at or above hi the last,
\* and in between the two neighbouring stops are interpolated linearly.
colormap(lo, hi, x) ==
    LET range == hi - lo
        i == Cardinality({k \in 0..Segments : range * k < Segments * (x - lo)})
        q == Segments * (x - lo) - (i - 1) * range
    IN  IF x <= lo THEN YlOrRd_09[1]
        ELSE IF x >= hi THEN YlOrRd_09[Segments + 1]
        ELSE [j \in 1..3 |->
                ChannelByte((range - q) * YlOrRd_09[i][j] + q * YlOrRd_09[i + 1][j],
                            range)]

Blue == [name |-> "blue", rgb |-> <<0, 0, 255>>]
Hex(rgb) == [name |-> "hex", rgb |-> rgb]

\* colormap(concentration) if 'colormap' in locals() and max_val > min_val
\* else 'blue'
point_color(lo, hi, concentration) ==
    IF HasScale(lo, hi) THEN Hex(colormap(lo, hi, concentration)) ELSE Blue

\* for _, row in df_filtered.iterrows(): one CircleMarker per row
markers_of(rows, col) ==
    LET lo == min_val_of(rows, col)
        hi == max_val_of(rows, col)
    IN  [i \in 1..Len(rows) |->
            [idx |-> rows[i].idx, value |-> rows[i][col].v,
             color |-> point_color(lo, hi, rows[i][col].v)]]

(***************************************************************************)
(* State                                                                   *)
(***************************************************************************)
VARIABLES
    file_exists,            \* whether data_file is there (lines 32-33)
    file,                   \* its rows
    cache,                  \* the st.cache_data entry of load_data (line 16)
    started,                \* the session has run the script once
    selected_element_name,  \* the selectbox (line 53)
    selected_sample_types,  \* the multiselect (line 62)
    df,                     \* what load_data returned to the last pass (line 34)
    ran,                    \* the stages the last pass executed
    shown,                  \* the st.error and st.warning messages of the last pass
    df_filtered,            \* the filtered table of the last pass (lines 75-80)
    legend,                 \* the last pass added the colour scale to the map (line 108)
    markers                 \* the markers the last pass drew (lines 111-129)

vars == <<file_exists, file, cache, started, selected_element_name,
          selected_sample_types, df, ran, shown, df_filtered, legend, markers>>

Init ==
    /\ file_exists \in BOOLEAN
    /\ file \in Files
    /\ (~file_exists => file = <<>>)
    /\ cache = NoEntry
    /\ started = FALSE
    /\ selected_element_name = element_names[1]
    /\ selected_sample_types = {}
    /\ df = NoEntry.value
    /\ ran = {}
    /\ shown = {}
    /\ df_filtered = <<>>
    /\ legend = FALSE
    /\ markers = <<>>

(***************************************************************************)
(* One run of the script, with the widgets returning name and types (the   *)
(* defaults on the first run: the first element, every sample type).       *)
(***************************************************************************)
Pass(first, name, types) ==
    \E res \in {cached_load_data(cache, file_exists, file)} :
    \* frame 1 is the table of the cache entry, ret.id the frame of df
    \E ret \in {cache_data_return(<<res.table>>, 1)} :
    \E picks \in {IF first THEN sample_types(ret.heap[ret.id]) ELSE types} :
    \E env \in {filter_stage(ret.heap, ret.id, selected_element_col(name), picks)} :
    \E rows \in {env.heap[env.df_filtered]} :
    LET col == selected_element_col(name)
    IN  /\ cache' = [present |-> TRUE,
                     value |-> IF res.none THEN res
                               ELSE [res EXCEPT !.table = env.heap[1]]]
        /\ started' = TRUE
        /\ UNCHANGED <<file_exists, file>>
        /\ IF res.none
           THEN \* if df is not None: nothing below runs
                /\ df' = res
                /\ ran' = {"load_data"}
                /\ shown' = res.msgs
                /\ UNCHANGED <<selected_element_name, selected_sample_types>>
                /\ df_filtered' = <<>>
                /\ legend' = FALSE
                /\ markers' = <<>>
           ELSE /\ selected_element_name' = name
                /\ selected_sample_types' = picks
                /\ IF NoneSelected(picks)
                   THEN \* if not selected_sample_types: st.warning
                        /\ df' = [res EXCEPT !.table = ret.heap[ret.id]]
                        /\ ran' = {"load_data", "sample_types"}
                        /\ shown' = res.msgs \cup {SelectTypeMsg}
                        /\ df_filtered' = <<>>
                        /\ legend' = FALSE
                        /\ markers' = <<>>
                   ELSE /\ df' = [res EXCEPT
                                    !.table = env.heap[env.df]]
                        /\ df_filtered' = rows
                        /\ IF IsEmpty(rows)
                           THEN \* if df_filtered.empty: st.warning
                                /\ ran' = {"load_data", "sample_types", "filter"}
                                /\ shown' = res.msgs \cup {NoValidDataMsg}
                                /\ legend' = FALSE
                                /\ markers' = <<>>
                           ELSE /\ ran' = {"load_data", "sample_types", "filter",
                                           "min_max", "map"}
                                        \cup (IF HasScale(min_val_of(rows, col),
                                                          max_val_of(rows, col))
                                              THEN {"colormap"} ELSE {})
                                /\ shown' = res.msgs
                                /\ legend' = HasScale(min_val_of(rows, col),
                                                      max_val_of(rows, col))
                                /\ markers' = markers_of(rows, col)

\* The browser opens the page: the script runs with the widget defaults.
FirstRun ==
    /\ ~started
    /\ Pass(TRUE, element_names[1], {})

\* The user picks another element in the selectbox.
SelectElement ==
    /\ started
    /\ ~df.none
    /\ \E i \in 1..Len(element_names) :
          /\ element_names[i] # selected_element_name
          /\ Pass(FALSE, element_names[i], selected_sample_types)

\* The user changes the multiselect to another subset of its options.
SelectSampleTypes ==
    /\ started
    /\ ~df.none
    /\ \E types \in SUBSET sample_types(df.table) :
          /\ types # selected_sample_types
          /\ Pass(FALSE, selected_element_name, types)

\* The page is run again with the widgets as they are.
Rerun ==
    /\ started
    /\ Pass(FALSE, selected_element_name, selected_sample_types)

Next == FirstRun \/ SelectElement \/ SelectSampleTypes \/ Rerun

Spec == Init /\ [][Next]_vars

(***************************************************************************)
(* Properties                                                              *)
(***************************************************************************)
SelectedCol == selected_element_col(selected_element_name)
FilterRan == "filter" \in ran
IdxSet(rows) == { rows[i].idx : i \in 1..Len(rows) }
RowAt(rows, k) == rows[CHOOSE i \in 1..Len(rows) : rows[i].idx = k]

\* The (sample type, Li cell) pairs of the file, row by row.
TypeAndLi(f) == [i \in 1..Len(f) |-> <<f[i].tipo_muestra, f[i].Li_ppm2>>]

\* C1: every row of the filtered table has its sample type in the selected
\* set and a numeric value, at least 0, for the selected element.
C1_FilterCorrectness ==
    FilterRan =>
        \A i \in 1..Len(df_filtered) :
            /\ df_filtered[i].tipo_muestra.kind = "str"
            /\ df_filtered[i].tipo_muestra.s \in selected_sample_types
            /\ df_filtered[i][SelectedCol].kind = "num"
            /\ df_filtered[i][SelectedCol].v >= 0

\* C1: the scenario (core, 5), (soil, -1), (core, "bad") with Li and {core}
\* selected leaves the first row only.
C1_Witness ==
    /\ FilterRan
    /\ file_exists
    /\ Len(file) = 3
    /\ \A i \in 1..3 : file[i].latitude = "4" /\ file[i].longitude = "-74"
    /\ TypeAndLi(file) = << <<"core", "5">>, <<"soil", "-1">>, <<"core", "bad">> >>
    /\ selected_element_name = "Li"
    /\ selected_sample_types = {"core"}
    /\ Len(df_filtered) = 1
    /\ df_filtered[1].idx = 0
    /\ df_filtered[1].Li_ppm2 = Num(5)

\* C2: with every sample type selected the filtered table is no longer than
\* the clean table, and a clean row is absent from it only if its value for
\* the selected element does not parse or is negative.
C2_FilterCompleteness ==
    (FilterRan /\ selected_sample_types = sample_types(CleanTable(file))) =>
        LET clean == CleanTable(file) IN
        /\ Len(df_filtered) <= Len(clean)
        /\ \A i \in 1..Len(clean) :
              LET value == to_numeric(clean[i][SelectedCol]) IN
              (value.kind = "num" /\ value.v >= 0)
                  <=> (\E j \in 1..Len(df_filtered) :
                          /\ df_filtered[j].idx = clean[i].idx
                          /\ df_filtered[j][SelectedCol] = value)

\* C2: both sample types selected, a row with value 0 kept, a row dropped.
C2_Witness ==
    /\ FilterRan
    /\ selected_sample_types = {"core", "soil"}
    /\ \E j \in 1..Len(df_filtered) : df_filtered[j][SelectedCol] = Num(0)
    /\ Len(df_filtered) = 2
    /\ Len(CleanTable(file)) = 3

\* C3: the filtered rows are rows of the clean table, each once, in the
\* order they have there, and they are the rows the inputs determine.
C3_FilterOrder ==
    FilterRan =>
        LET clean == CleanTable(file) IN
        /\ \A i, j \in 1..Len(df_filtered) :
              i < j =>
                 \E p, q \in 1..Len(clean) :
                    /\ p < q
                    /\ clean[p].idx = df_filtered[i].idx
                    /\ clean[q].idx = df_filtered[j].idx
        /\ \A i \in 1..Len(df_filtered) : df_filtered[i].idx \in IdxSet(clean)
        /\ IdxSet(df_filtered) =
              { clean[p].idx : p \in { n \in 1..Len(clean) :
                    /\ clean[n].tipo_muestra.s \in selected_sample_types
                    /\ GeZero(to_numeric(clean[n][SelectedCol])) } }

\* C3: the first row was dropped on loading; the other two are kept, the
\* larger value first.
C3_Witness ==
    /\ FilterRan
    /\ Len(df_filtered) = 2
    /\ df_filtered[1].idx = 1
    /\ df_filtered[2].idx = 2
    /\ df_filtered[1][SelectedCol].v > df_filtered[2][SelectedCol].v

\* The rows of the file that the cleaning must keep: latitude and longitude
\* parse, the sample type is there.
SoundIdx(f) ==
    { i - 1 : i \in { n \in 1..Len(f) :
        /\ IsNumeral(f[n].latitude)
        /\ IsNumeral(f[n].longitude)
        /\ f[n].tipo_muestra # "" } }

\* C4: every row of the clean table has a numeric latitude, a numeric
\* longitude and a sample type; the rows kept are exactly the rows of the
\* file whose three cells are sound, so a bad cell drops its row only.
C4_CleaningInvariant ==
    (started /\ file_exists) =>
        /\ ~df.none
        /\ \A i \in 1..Len(df.table) :
              /\ df.table[i].latitude.kind = "num"
              /\ df.table[i].longitude.kind = "num"
              /\ df.table[i].tipo_muestra.kind = "str"
        /\ IdxSet(df.table) = SoundIdx(file)
        /\ Len(df.table) = Cardinality(SoundIdx(file))

\* C4: a file with a longitude that does not parse, a missing sample type
\* and a sound row.
C4_Witness ==
    /\ started
    /\ file_exists
    /\ Len(file) = 3
    /\ file[1].longitude = "bad"
    /\ file[2].tipo_muestra = ""
    /\ Len(df.table) = 1
    /\ df.table[1].idx = 2

MapRendered == "map" \in ran

\* C5: when the file does not exist, load_data shows the error and returns
\* no table, and the pass computes no options, filters nothing, builds no
\* scale and renders no map.
C5_LoadFailure ==
    (started /\ ~file_exists) =>
        /\ df.none
        /\ df.table = <<>>
        /\ FileNotFoundMsg \in shown
        /\ ran = {"load_data"}
        /\ df_filtered = <<>>
        /\ ~legend
        /\ markers = <<>>

\* C5: a pass has run without the file.
C5_Witness == started /\ ~file_exists /\ cache.present /\ cache.value.none

\* C6: with a table loaded, a map is rendered only if the selection and the
\* filtered table are both non-empty; an empty selection skips the filter
\* and shows the selection warning, an empty filtered table shows the "no
\* valid data" warning; either way no map, and nothing but a warning.
C6_EmptyOutcomes ==
    (started /\ ~df.none) =>
        /\ MapRendered <=> (selected_sample_types # {} /\ df_filtered # <<>>)
        /\ MapRendered => (shown = {} /\ Len(markers) = Len(df_filtered))
        /\ selected_sample_types = {} =>
              /\ ~FilterRan
              /\ shown = {SelectTypeMsg}
              /\ markers = <<>>
              /\ ~legend
        /\ (selected_sample_types # {} /\ df_filtered = <<>>) =>
              /\ FilterRan
              /\ shown = {NoValidDataMsg}
              /\ markers = <<>>
              /\ ~legend
        /\ \A m \in shown : m.level = "warning"

\* C6: a non-empty selection whose rows all fail the element check.
C6_Witness ==
    /\ started
    /\ ~df.none
    /\ selected_sample_types # {}
    /\ TypeRows(df.table, selected_sample_types) # <<>>
    /\ df_filtered = <<>>
    /\ shown = {NoValidDataMsg}

\* The file has rows and every latitude is missing, as read or after the
\* coercion.
AllLatitudesMissing ==
    /\ Len(file) > 0
    /\ \A i \in 1..Len(file) : ~IsNumeral(file[i].latitude)

LoaderWarning == \E m \in shown : m.by = "load_data" /\ m.level = "warning"

\* C7 as stated: with every latitude missing the clean table is empty, the
\* filter is not invoked and a warning of the loader is shown.
C7_Original ==
    (started /\ file_exists /\ AllLatitudesMissing) =>
        /\ df.table = <<>>
        /\ ~FilterRan
        /\ LoaderWarning

\* C7 amended: with every latitude missing the clean table is empty, the
\* filter is not invoked in any pass, and the warning shown is the script's
\* "select at least one sample type" warning; load_data shows nothing.
C7_EmptyCleanTable ==
    (started /\ file_exists /\ AllLatitudesMissing) =>
        /\ ~df.none
        /\ df.table = <<>>
        /\ ~FilterRan
        /\ selected_sample_types = {}
        /\ shown = {SelectTypeMsg}
        /\ \A m \in shown : m.by # "load_data"

\* C7: a file of three rows, none with a latitude, has been loaded.
C7_Witness ==
    /\ started
    /\ file_exists
    /\ Len(file) = 3
    /\ AllLatitudesMissing
    /\ file[1].latitude = ""
    /\ file[2].latitude = "bad"
    /\ df.table = <<>>

\* The values of the selected element in the filtered table.
FilteredValues == { df_filtered[i][SelectedCol].v : i \in 1..Len(df_filtered) }
Least == CHOOSE v \in FilteredValues : \A w \in FilteredValues : v <= w
Greatest == CHOOSE v \in FilteredValues : \A w \in FilteredValues : v >= w

\* C8: when all filtered values are equal every marker is blue and there is
\* no legend; otherwise there is a legend and every marker has a colour of
\* the gradient.
C8_DegenerateScale ==
    MapRendered =>
        IF Cardinality(FilteredValues) = 1
        THEN /\ ~legend
             /\ "colormap" \notin ran
             /\ \A i \in 1..Len(markers) : markers[i].color = Blue
        ELSE /\ legend
             /\ "colormap" \in ran
             /\ \A i \in 1..Len(markers) : markers[i].color.name = "hex"

\* C8: two rows with the same value.
C8_Witness ==
    /\ MapRendered
    /\ Len(df_filtered) = 2
    /\ Cardinality(FilteredValues) = 1
    /\ markers[1].color = Blue

\* The gradient runs from light yellow to dark red: along it the red and
\* the green bytes never grow.
Before(c1, c2) == c1[1] >= c2[1] /\ c1[2] >= c2[2]

\* C9: with max > min, the marker of the smallest value has the first stop
\* and the marker of the largest the last; every value passed to the scale
\* lies in [min, max]; and for min < v1 < v2 < max the colour of v1 differs
\* from the colour of v2 and comes before it along the gradient.
C9_ColourMonotonicity ==
    (MapRendered /\ legend) =>
        /\ \A i \in 1..Len(markers) :
              /\ markers[i].value = df_filtered[i][SelectedCol].v
              /\ Least <= markers[i].value
              /\ markers[i].value <= Greatest
              /\ markers[i].value = Least => markers[i].color = Hex(YlOrRd_09[1])
              /\ markers[i].value = Greatest =>
                    markers[i].color = Hex(YlOrRd_09[Len(YlOrRd_09)])
              /\ markers[i].color = Hex(colormap(Least, Greatest, markers[i].value))
        /\ \A v1, v2 \in (Least + 1)..(Greatest - 1) :
              v1 < v2 =>
                 /\ colormap(Least, Greatest, v1) # colormap(Least, Greatest, v2)
                 /\ Before(colormap(Least, Greatest, v1), colormap(Least, Greatest, v2))
                 /\ Before(YlOrRd_09[1], colormap(Least, Greatest, v1))
                 /\ Before(colormap(Least, Greatest, v2), YlOrRd_09[Len(YlOrRd_09)])

\* C9: markers for 2, 0 and 5: the scale runs over [0, 5] and the marker of
\* 2 lies strictly between the ends.
C9_Witness ==
    /\ MapRendered
    /\ legend
    /\ Len(markers) = 3
    /\ markers[1].value = 2
    /\ markers[2].value = 0
    /\ markers[3].value = 5
    /\ markers[1].color.rgb # YlOrRd_09[1]
    /\ markers[1].color.rgb # YlOrRd_09[Len(YlOrRd_09)]

\* A row of the clean table as the filter stage must leave it in its copy:
\* the selected element coerced, every other cell as it is.
Coerced(row) == [row EXCEPT ![SelectedCol] = to_numeric(row[SelectedCol])]

\* The places of the clean table whose rows the current selection keeps.
KeptPlaces(clean) ==
    { n \in 1..Len(clean) :
        /\ clean[n].tipo_muestra.s \in selected_sample_types
        /\ GeZero(to_numeric(clean[n][SelectedCol])) }

\* C10: after any sequence of selections the frame of df and the cache
\* entry hold the clean table of the file, untouched by the coercion and
\* the drops of the filter stage, which reached only the copy; and the
\* filtered table and the markers are those of the clean table and the
\* current selection, whatever was selected before.
C10_CleanTableReadOnly ==
    (started /\ file_exists) =>
        \A clean \in {CleanTable(file)} :
        \A kept \in {KeptPlaces(clean)} :
        /\ df.table = clean
        /\ cache.value.table = clean
        /\ FilterRan <=> selected_sample_types # {}
        /\ Len(df_filtered) = Cardinality(kept)
        /\ \A n \in kept :
              \E j \in 1..Len(df_filtered) : df_filtered[j] = Coerced(clean[n])
        /\ Len(markers) = Len(df_filtered)
        /\ markers # <<>> =>
              \A lo \in {Least} : \A hi \in {Greatest} :
              \A j \in 1..Len(markers) :
                 /\ markers[j].idx = df_filtered[j].idx
                 /\ markers[j].value = df_filtered[j][SelectedCol].v
                 /\ markers[j].color =
                       IF lo < hi
                       THEN Hex(colormap(lo, hi, markers[j].value))
                       ELSE Blue

\* C10: after two changes of the selection (another element, fewer sample
\* types) a filter has run that coerced a text column and dropped rows.
C10_Witness ==
    /\ started
    /\ file_exists
    /\ selected_element_name = "Cu"
    /\ selected_sample_types = {"soil"}
    /\ sample_types(df.table) = {"core", "soil"}
    /\ \E i \in 1..Len(df.table) : df.table[i].Li_ppm2.kind = "str"
    /\ \E i \in 1..Len(df.table) :
          df.table[i].tipo_muestra.s = "soil" /\ df.table[i].Cu_ppm2.kind = "nan"
    /\ FilterRan

====
